---- MODULE Spec2Model ----
(***************************************************************************)
(* Model of homeassistant/components/time_date/config_flow.py: the config  *)
(* flow of the Time & Date integration (user step, validation, title,      *)
(* duplicate abort) and the websocket preview command ws_start_preview.    *)
(* A Python str is modelled as the sequence of its characters, a dict as a *)
(* function, an insertion-ordered dict as a sequence of its items.         *)
(***************************************************************************)
EXTENDS Integers, Sequences, FiniteSets, TLC

\* ------------------------------------------------------------------ bounds
MaxFlows == 2
MaxCmds == 1
MaxUpdates == 2

FlowIds == 1..MaxFlows
CmdIds == 1..MaxCmds

\* --------------------------------------------------------------- constants
s_time == <<"t", "i", "m", "e">>
s_date == <<"d", "a", "t", "e">>
s_date_time == <<"d", "a", "t", "e", "_", "t", "i", "m", "e">>
s_date_time_utc == s_date_time \o <<"_", "u", "t", "c">>
s_date_time_iso == s_date_time \o <<"_", "i", "s", "o">>
s_time_date == <<"t", "i", "m", "e", "_", "d", "a", "t", "e">>
s_beat == <<"b", "e", "a", "t">>
s_time_utc == <<"t", "i", "m", "e", "_", "u", "t", "c">>
s_bogus == <<"u", "t", "c">>

CONF_DISPLAY_OPTIONS == "display_options"
DOMAIN_NAME == "time_date"
OPTION_TYPES ==
    << s_time, s_date, s_date_time, s_date_time_utc, s_date_time_iso,
       s_time_date, s_beat, s_time_utc >>

Range(s) == {s[i] : i \in 1..Len(s)}

\* ------------------------------------------------------------------ inputs
\* Values a client may put under display_options, and whole user_input dicts:
\* well-formed ones, one without the key, one with an extra key.
InputValues == {s_time, s_date, s_beat, s_bogus}
EmptyDict == [k \in {} |-> <<>>]
UserInputs ==
    {[display_options |-> v] : v \in InputValues}
        \cup {EmptyDict, [display_options |-> s_time, extra |-> s_date]}
TimeZones == {"None", "UTC"}
\* user_input dicts of start_preview commands, and the flows they name.
PreviewValues == {s_time, s_beat}
PreviewInputs ==
    {[display_options |-> v] : v \in PreviewValues}
        \cup {EmptyDict, [display_options |-> s_time, extra |-> s_date]}
MsgFlowIds == {1, 2}

VARIABLES
    time_zone,        \* hass.config.time_zone ("None" when not configured)
    flows,            \* config flows in progress, by flow id
    entries,          \* hass.config_entries: config entries, in creation order
    registry,         \* entity registry entries
    next_id,          \* id of the next websocket command on the connection
    handled,          \* what became of each websocket command, by id
    sent,             \* messages sent on the connection, in order
    conn_subscriptions, \* connection.subscriptions: command id -> callback
    preview_entities, \* per command: option types of its preview sensors
    preview_states,   \* per command: ordered dict key -> state, attributes
    subscriptions,    \* per command: list of cancel functions (sensor keys)
    reported,         \* per command: every call of async_preview_updated
    cancelled,        \* per command: every call of a sensor's cancel function
    unsub_calls       \* per command: calls of the unsubscribe callback: 0, 1,
                      \* or 2 for two and more

flowVars == <<time_zone, flows, entries, registry>>
previewVars ==
    <<next_id, handled, sent, conn_subscriptions, preview_entities,
      preview_states, subscriptions, reported, cancelled, unsub_calls>>
vars == <<flowVars, previewVars>>

\* ------------------------------------------------------- the user step form
\* USER_SCHEMA's selector options: OPTION_TYPES without "beat".
SelectOptionsWithBeat == Range(OPTION_TYPES)
SelectOptions == {o \in Range(OPTION_TYPES) : o # s_beat}

\* USER_SCHEMA(user_input) returns its argument when it holds exactly the
\* required key with one of the selector's options, and raises otherwise.
USER_SCHEMA(user_input) ==
    /\ DOMAIN user_input = {CONF_DISPLAY_OPTIONS}
    /\ user_input[CONF_DISPLAY_OPTIONS] \in SelectOptions

validate_input_never_raises(tz, user_input) ==
    [raised |-> "None", value |-> user_input]
validate_input(tz, user_input) ==
    IF tz = "None"
    THEN [raised |-> "timezone_not_exist", value |-> EmptyDict]
    ELSE [raised |-> "None", value |-> user_input]

TitlePrefix == <<"T", "i", "m", "e", " ", "&", " ", "D", "a", "t", "e", " ">>
async_config_entry_title_fixed(options) == <<"T", "i", "m", "e", " ", "&", " ", "D", "a", "t", "e">>
async_config_entry_title(options) ==
    TitlePrefix \o options[CONF_DISPLAY_OPTIONS]

\* ChainMap(entry.options, entry.data): options first, then data.
ChainMapGet(entry, k) ==
    IF k \in DOMAIN entry.options THEN entry.options[k] ELSE entry.data[k]
ChainMapHas(entry, k) == k \in (DOMAIN entry.options \cup DOMAIN entry.data)

\* TRUE when _async_abort_entries_match raises AbortFlow("already_configured")
async_abort_entries_match(es, match_dict) ==
    \E i \in 1..Len(es) :
        \A k \in DOMAIN match_dict :
            ChainMapHas(es[i], k) /\ ChainMapGet(es[i], k) = match_dict[k]

async_config_flow_finished_no_abort(es, options) == FALSE
async_config_flow_finished(es, options) ==
    async_abort_entries_match(es, options)

NoFlow == [step |-> "none", user_input |-> EmptyDict, time_zone |-> "None",
           errors |-> "None", result |-> "None"]

NewEntry(es, options) ==
    [entry_id |-> Len(es) + 1,
     domain |-> DOMAIN_NAME,
     title |-> async_config_entry_title(options),
     data |-> EmptyDict,
     options |-> options]

\* The outcome of submitting user_input to the user step of an open flow:
\* schema, then validate_user_input, then async_create_entry.
StepResult(es, tz, user_input) ==
    IF ~USER_SCHEMA(user_input) THEN "invalid_data"
    ELSE IF validate_input(tz, user_input).raised # "None" THEN "form"
    ELSE IF async_config_flow_finished(es, validate_input(tz, user_input).value)
         THEN "abort"
    ELSE "create_entry"

InitFlow(f) ==
    /\ flows[f].step = "none"
    /\ flows' = [flows EXCEPT ![f].step = "user"]
    /\ UNCHANGED <<time_zone, entries, registry, previewVars>>

SubmitUser(f, user_input) ==
    /\ flows[f].step = "user"
    /\ LET res == StepResult(entries, time_zone, user_input)
           v == validate_input(time_zone, user_input)
       IN /\ flows' = [flows EXCEPT ![f] =
                 [step |-> IF res \in {"abort", "create_entry"} THEN "done" ELSE "user",
                  user_input |-> user_input,
                  time_zone |-> time_zone,
                  errors |-> IF res = "form" THEN v.raised ELSE "None",
                  result |-> res]]
          /\ entries' = IF res = "create_entry"
                        THEN Append(entries, NewEntry(entries, v.value))
                        ELSE entries
          /\ registry' = IF res = "create_entry"
                         THEN registry \cup
                              {[config_entry_id |-> Len(entries) + 1,
                                unique_id |-> v.value[CONF_DISPLAY_OPTIONS]]}
                         ELSE registry
    /\ UNCHANGED <<time_zone, previewVars>>

SetTimeZone(tz) ==
    /\ tz # time_zone
    /\ time_zone' = tz
    /\ UNCHANGED <<flows, entries, registry, previewVars>>


\* ------------------------------------------------------ websocket messages
result_message(id) == [type |-> "result", id |-> id, success |-> TRUE]
event_message(id, event) == [type |-> "event", id |-> id, event |-> event]
error_message(id, code) == [type |-> "result", id |-> id, success |-> FALSE, code |-> code]

\* The command schema of time_date/start_preview: flow_type must be
\* "config_flow" (flow_id is a str and user_input a dict for every message
\* drawn here).
CommandSchema(msg) ==
    /\ msg.type = "time_date/start_preview"
    /\ msg.flow_type \in {"config_flow"}

\* hass.config_entries.options.async_get(flow_id)["handler"]: the id of the
\* config entry that options flow flow_id edits.
options_flow_handler(flow_id) == flow_id
\* The handler of the flow a command names: of a config flow the domain, of
\* an options flow the config entry.
flow_handler(msg) ==
    IF msg.flow_type = "options_flow" THEN options_flow_handler(msg.flow_id) ELSE 0
\* hass.config_entries.async_get_entry(entry_id) finds an entry
async_get_entry_found(es, entry_id) ==
    \E i \in 1..Len(es) : es[i].entry_id = entry_id
async_entries_for_config_entry(reg, entry_id) ==
    {e \in reg : e.config_entry_id = entry_id}

\* ------------------------------------------------- insertion-ordered dicts
DictKeys(d) == {d[i].key : i \in 1..Len(d)}
DictIndex(d, k) == CHOOSE i \in 1..Len(d) : d[i].key = k
DictSet(d, k, v) ==
    IF k \in DictKeys(d)
    THEN [d EXCEPT ![DictIndex(d, k)] = [key |-> k, value |-> v]]
    ELSE Append(d, [key |-> k, value |-> v])
DictValues(d) == [i \in 1..Len(d) |-> d[i].value]

\* The keys of {option_type: ... for option_type in s}, in insertion order:
\* iterating s yields its elements, a repeated one keeps its first place.
RECURSIVE ComprehensionKeys(_)
ComprehensionKeys(s) ==
    IF s = <<>> THEN <<>>
    ELSE LET init == ComprehensionKeys(SubSeq(s, 1, Len(s) - 1))
             last == s[Len(s)]
         IN IF last \in Range(init) THEN init ELSE Append(init, last)

\* --------------------------------------------------- the preview's closures
\* cl is the state the closures of one ws_start_preview call share with the
\* connection: [sent, preview_states, subscriptions].
async_preview_updated_latest_only(cl, id, key, state, attributes) ==
    LET ps == <<[key |-> key, value |-> [attributes |-> attributes, state |-> state]]>>
    IN [cl EXCEPT !.preview_states = ps,
                  !.sent = Append(@, event_message(id, [items |-> DictValues(ps)]))]
async_preview_updated(cl, id, key, state, attributes) ==
    LET ps == DictSet(cl.preview_states, key,
                      [attributes |-> attributes, state |-> state])
    IN [cl EXCEPT !.preview_states = ps,
                  !.sent = Append(@, event_message(id, [items |-> DictValues(ps)]))]

\* while subscriptions: subscriptions.pop()()  -- the list left, and the
\* cancel functions called, in the order called.
async_unsubscripe_subscriptions_pop_one(subs) ==
    IF subs = <<>> THEN [subscriptions |-> <<>>, called |-> <<>>]
    ELSE [subscriptions |-> SubSeq(subs, 1, Len(subs) - 1),
          called |-> <<subs[Len(subs)]>>]
async_unsubscripe_subscriptions(subs) ==
    [subscriptions |-> <<>>,
     called |-> [i \in 1..Len(subs) |-> subs[Len(subs) + 1 - i]]]

\* What a preview sensor reports: its state and attributes.
NoSync == [state |-> -1, attributes |-> [n |-> -1]]
Report(s) == [state |-> s, attributes |-> [n |-> s]]
InitialReport == Report(0)
Reports == {Report(1)}

\* TimeDateSensor(option_type).async_start_preview(callback): the sensor may
\* call the callback at once (sync # NoSync) and returns its cancel function,
\* which the caller appends to subscriptions.
async_start_preview(cl, id, option_type, sync) ==
    LET c1 == IF sync = NoSync THEN cl
              ELSE async_preview_updated(cl, id, option_type, sync.state, sync.attributes)
    IN [c1 EXCEPT !.subscriptions = Append(@, option_type)]

RECURSIVE StartPreviews(_, _, _, _)
StartPreviews(cl, id, keys, sync) ==
    IF keys = <<>> THEN cl
    ELSE StartPreviews(async_start_preview(cl, id, Head(keys), sync), id, Tail(keys), sync)

\* connection.send_result(msg["id"]), then the loop starting the previews.
StartThenSendResult(cl, id, keys, sync) ==
    [StartPreviews(cl, id, keys, sync) EXCEPT !.sent = Append(@, result_message(id))]
SendResultAndStart(cl, id, keys, sync) ==
    StartPreviews([cl EXCEPT !.sent = Append(@, result_message(id))], id, keys, sync)

\* ws_start_preview(hass, connection, msg): what it raises, and the state it
\* leaves. hass is read only: es are the config entries, reg the registry.
ws_start_preview(es, reg, out, msg, sync) ==
    LET failed(exc) ==
            [raised |-> exc, sent |-> out, preview_entities |-> <<>>,
             preview_states |-> <<>>, subscriptions |-> <<>>,
             registry_entries |-> {}, conn_subscription |-> 0]
    IN  IF ~USER_SCHEMA(msg.user_input) THEN failed("Invalid")
        ELSE
        LET validated == msg.user_input
            keys == ComprehensionKeys(validated[CONF_DISPLAY_OPTIONS])
            config_entry_id == options_flow_handler(msg.flow_id)
            found == {e \in async_entries_for_config_entry(reg, config_entry_id) :
                         \E i \in 1..Len(keys) : e.unique_id = keys[i]}
            cl == SendResultAndStart(
                      [sent |-> out, preview_states |-> <<>>, subscriptions |-> <<>>],
                      msg.id, keys, sync)
        IN  IF msg.flow_type = "options_flow" /\ ~async_get_entry_found(es, config_entry_id)
            THEN failed("HomeAssistantError")
            ELSE [raised |-> "None", sent |-> cl.sent, preview_entities |-> keys,
                  preview_states |-> cl.preview_states,
                  subscriptions |-> cl.subscriptions,
                  registry_entries |->
                      IF msg.flow_type = "options_flow" THEN found ELSE {},
                  conn_subscription |-> msg.id]

ExceptionCode(exc) ==
    IF exc = "Invalid" THEN "invalid_format"
    ELSE IF exc = "HomeAssistantError" THEN "home_assistant_error"
    ELSE "unknown_error"

Msgs ==
    [type : {"time_date/start_preview"}, id : {next_id}, flow_id : MsgFlowIds,
     flow_type : {"config_flow", "options_flow"}, user_input : PreviewInputs]
SyncChoices == {NoSync, InitialReport}

\* A start_preview command arrives: the host checks it against the command
\* schema and, when it passes, runs ws_start_preview; an exception becomes an
\* error message.
HandleCommandPreview(msg, sync) ==
    /\ next_id <= MaxCmds
    /\ msg.id = next_id
    /\ next_id' = next_id + 1
    /\ LET r == ws_start_preview(entries, registry, sent, msg, sync)
           ok == CommandSchema(msg) /\ r.raised = "None"
           absent == ~async_get_entry_found(entries, flow_handler(msg))
       IN /\ handled' = [handled EXCEPT ![msg.id] =
                 [status |-> IF ~CommandSchema(msg) THEN "rejected"
                             ELSE IF ok THEN "done" ELSE "raised",
                  raised |-> IF CommandSchema(msg) THEN r.raised ELSE "None",
                  flow_type |-> msg.flow_type, record_absent |-> absent,
                  validated |-> IF ok THEN msg.user_input ELSE EmptyDict,
                  sync |-> IF ok THEN sync ELSE NoSync]]
          /\ sent' = IF ~CommandSchema(msg)
                     THEN Append(sent, error_message(msg.id, "invalid_format"))
                     ELSE IF ok THEN r.sent
                     ELSE Append(r.sent, error_message(msg.id, ExceptionCode(r.raised)))
          /\ conn_subscriptions' =
                 IF ok THEN [conn_subscriptions EXCEPT ![msg.id] = r.conn_subscription]
                 ELSE conn_subscriptions
          /\ preview_entities' =
                 IF ok THEN [preview_entities EXCEPT ![msg.id] = r.preview_entities]
                 ELSE preview_entities
          /\ preview_states' =
                 IF ok THEN [preview_states EXCEPT ![msg.id] = r.preview_states]
                 ELSE preview_states
          /\ subscriptions' =
                 IF ok THEN [subscriptions EXCEPT ![msg.id] = r.subscriptions]
                 ELSE subscriptions
          /\ reported' =
                 IF ok /\ sync # NoSync
                 THEN [reported EXCEPT ![msg.id] =
                          [i \in 1..Len(r.preview_entities) |->
                              [key |-> r.preview_entities[i], state |-> sync.state,
                               attributes |-> sync.attributes]]]
                 ELSE reported
    /\ UNCHANGED <<cancelled, unsub_calls>>

HandleCommandPersisting(msg, sync) ==
    /\ HandleCommandPreview(msg, sync)
    /\ registry' = registry \cup
           {[config_entry_id |-> 0, unique_id |-> k] : k \in Range(preview_entities'[msg.id])}
    /\ UNCHANGED <<time_zone, flows, entries>>
HandleCommand(msg, sync) ==
    /\ HandleCommandPreview(msg, sync)
    /\ UNCHANGED flowVars

\* Sensors of command id that were started and not cancelled since.
LiveSensors(id) ==
    {k \in Range(preview_entities[id]) :
        handled[id].status = "done" /\ k \notin Range(cancelled[id])}
\* Reports made after the start of the previews, over all commands.
RECURSIVE LaterReports(_)
LaterReports(n) ==
    IF n = 0 THEN 0
    ELSE LaterReports(n - 1) + Len(reported[n])
         - (IF handled[n].status = "done" /\ handled[n].sync # NoSync
            THEN Len(preview_entities[n]) ELSE 0)

\* A running preview sensor reports a new state: it calls the callback it was
\* started with.
PreviewUpdate(id, key, rep) ==
    /\ key \in LiveSensors(id)
    /\ LaterReports(MaxCmds) < MaxUpdates
    /\ LET cl == async_preview_updated(
                     [sent |-> sent, preview_states |-> preview_states[id],
                      subscriptions |-> subscriptions[id]],
                     id, key, rep.state, rep.attributes)
       IN /\ sent' = cl.sent
          /\ preview_states' = [preview_states EXCEPT ![id] = cl.preview_states]
          /\ subscriptions' = [subscriptions EXCEPT ![id] = cl.subscriptions]
    /\ reported' = [reported EXCEPT ![id] =
           Append(@, [key |-> key, state |-> rep.state, attributes |-> rep.attributes])]
    /\ UNCHANGED <<flowVars, next_id, handled, conn_subscriptions,
                   preview_entities, cancelled, unsub_calls>>

\* The host calls the callback registered under connection.subscriptions[id].
Unsubscribe(id) ==
    /\ conn_subscriptions[id] # 0
    /\ LET c == conn_subscriptions[id]
           r == async_unsubscripe_subscriptions(subscriptions[c])
       IN /\ subscriptions' = [subscriptions EXCEPT ![c] = r.subscriptions]
          /\ cancelled' = [cancelled EXCEPT ![c] = @ \o r.called]
    /\ unsub_calls' = [unsub_calls EXCEPT ![id] = IF @ = 0 THEN 1 ELSE 2]
    /\ UNCHANGED <<flowVars, next_id, handled, sent, conn_subscriptions,
                   preview_entities, preview_states, reported>>

InitHost ==
    /\ time_zone \in TimeZones
    /\ flows = [f \in FlowIds |-> NoFlow]
    /\ entries = <<>>
    /\ registry = {}

InitConnection ==
    /\ next_id = 1
    /\ handled = [c \in CmdIds |-> [status |-> "none"]]
    /\ sent = <<>>
    /\ conn_subscriptions = [c \in CmdIds |-> 0]
    /\ preview_entities = [c \in CmdIds |-> <<>>]
    /\ preview_states = [c \in CmdIds |-> <<>>]
    /\ subscriptions = [c \in CmdIds |-> <<>>]
    /\ reported = [c \in CmdIds |-> <<>>]
    /\ cancelled = [c \in CmdIds |-> <<>>]
    /\ unsub_calls = [c \in CmdIds |-> 0]

Init == InitHost /\ InitConnection

FlowNext ==
    \/ \E f \in FlowIds : InitFlow(f)
    \/ \E f \in FlowIds, ui \in UserInputs : SubmitUser(f, ui)
    \/ \E tz \in TimeZones : SetTimeZone(tz)

PreviewNext ==
    \/ \E msg \in Msgs, sync \in SyncChoices : HandleCommand(msg, sync)
    \/ \E id \in CmdIds : \E key \in Range(preview_entities[id]), rep \in Reports :
           PreviewUpdate(id, key, rep)
    \/ \E id \in CmdIds : Unsubscribe(id)

Next == FlowNext \/ PreviewNext

Spec == Init /\ [][Next]_vars
SpecFlow == Init /\ [][FlowNext]_vars

\* A host on which flow 1 has created the "time" entry, or a fresh one.
FlowDone(ui) ==
    [step |-> "done", user_input |-> ui, time_zone |-> "UTC",
     errors |-> "None", result |-> "create_entry"]
HostWithTimeEntry ==
    /\ time_zone = "UTC"
    /\ flows = [f \in FlowIds |->
                   IF f = 1 THEN FlowDone([display_options |-> s_time]) ELSE NoFlow]
    /\ entries = <<NewEntry(<<>>, [display_options |-> s_time])>>
    /\ registry = {[config_entry_id |-> 1, unique_id |-> s_time]}
InitPreview ==
    /\ (InitHost /\ time_zone = "UTC") \/ HostWithTimeEntry
    /\ InitConnection
SpecPreview == InitPreview /\ [][PreviewNext]_vars

\* ================================================================= claims
option_of(d) == d[CONF_DISPLAY_OPTIONS]
StepRan(f) == flows[f].result \in {"form", "abort", "create_entry"}

\* C1: a submission the user step handles fails with "timezone_not_exist"
\* exactly when the time zone it sees is None; that failure leaves the flow on
\* its form and the config entries as they were; with a time zone configured
\* validate_input returns the submitted user input unchanged, which is what
\* the created entry then holds.
C1_TimezoneNotExist ==
    /\ [](/\ \A f \in FlowIds :
                StepRan(f) =>
                    /\ (flows[f].errors = "timezone_not_exist")
                           <=> (flows[f].time_zone = "None")
                    /\ flows[f].errors = "timezone_not_exist"
                           => flows[f].step = "user" /\ flows[f].result = "form"
                    /\ flows[f].result = "create_entry"
                           => \E i \in 1..Len(entries) :
                                  entries[i].options = flows[f].user_input
          /\ \A ui \in UserInputs :
                validate_input("UTC", ui) = [raised |-> "None", value |-> ui])
    /\ [][\A f \in FlowIds :
             (flows'[f] # flows[f] /\ flows'[f].errors = "timezone_not_exist")
                 => entries' = entries]_vars
C1_Witness ==
    \E f \in FlowIds :
        /\ flows[f].errors = "timezone_not_exist"
        /\ flows[f].user_input = [display_options |-> s_date]
        /\ Len(entries) = 1

\* C2: every config entry holds exactly one field, display_options, whose
\* value is in OPTION_TYPES and is not "beat"; a submission of "beat" or of a
\* value outside OPTION_TYPES creates no entry.
C2_EntryHoldsOneOption ==
    /\ \A i \in 1..Len(entries) :
          /\ DOMAIN entries[i].options = {CONF_DISPLAY_OPTIONS}
          /\ DOMAIN entries[i].data = {}
          /\ \E k \in 1..Len(OPTION_TYPES) :
                entries[i].options[CONF_DISPLAY_OPTIONS] = OPTION_TYPES[k]
          /\ entries[i].options[CONF_DISPLAY_OPTIONS] # s_beat
    /\ \A f \in FlowIds :
          (/\ flows[f].result # "None"
           /\ CONF_DISPLAY_OPTIONS \in DOMAIN flows[f].user_input
           /\ \/ option_of(flows[f].user_input) = s_beat
              \/ \A k \in 1..Len(OPTION_TYPES) :
                    option_of(flows[f].user_input) # OPTION_TYPES[k])
              => /\ flows[f].result = "invalid_data"
                 /\ \A i \in 1..Len(entries) :
                       entries[i].options # flows[f].user_input
C2_Witness ==
    /\ Len(entries) = 1
    /\ \E f \in FlowIds :
          /\ flows[f].user_input = [display_options |-> s_beat]
          /\ flows[f].result = "invalid_data"

\* C3: no two config entries hold the same display option, and a flow that
\* was aborted finished with the options of an existing entry.
C3_NoDuplicateEntries ==
    /\ \A i, j \in 1..Len(entries) :
          i # j => option_of(entries[i].options) # option_of(entries[j].options)
    /\ \A f \in FlowIds :
          flows[f].result = "abort"
              => \E i \in 1..Len(entries) : entries[i].options = flows[f].user_input
C3_Witness ==
    \E f, g \in FlowIds :
        /\ f # g
        /\ flows[f].result = "create_entry"
        /\ flows[g].result = "abort"
        /\ flows[g].user_input = flows[f].user_input
        /\ Len(entries) = 1

\* C4: a command that names an options flow whose config entry is absent
\* makes ws_start_preview raise HomeAssistantError, before any result message
\* and before any preview is started or registered.
IsResult(m, id) == m.type = "result" /\ m.id = id /\ m.success
IsEvent(m, id) == m.type = "event" /\ m.id = id
C4_AbsentRecordRaises ==
    \A id \in CmdIds :
        (/\ handled[id].status # "none"
         /\ handled[id].flow_type = "options_flow"
         /\ handled[id].record_absent)
            => /\ handled[id].raised = "HomeAssistantError"
               /\ \A k \in 1..Len(sent) : ~IsResult(sent[k], id)
               /\ subscriptions[id] = <<>>
               /\ conn_subscriptions[id] = 0

\* C5: no step of a preview (a start_preview command, a preview update, an
\* unsubscription) changes the config entries or the entity registry.
C5_PreviewPersistsNothing ==
    [][previewVars' # previewVars => UNCHANGED <<entries, registry>>]_vars
C5_Witness ==
    \E id \in CmdIds :
        /\ handled[id].status = "done"
        /\ Len(entries) = 1
        /\ registry # {}
        /\ Len(reported[id]) > Len(preview_entities[id])
        /\ unsub_calls[id] = 2

\* C6: the title of an entry is "Time & Date " followed by its display
\* option, so titles are equal exactly when the display options are.
TitleOf(d) == async_config_entry_title([display_options |-> d])
IsTitleOf(t, d) ==
    /\ Len(t) = 12 + Len(d)
    /\ SubSeq(t, 1, 12) = <<"T", "i", "m", "e", " ", "&", " ", "D", "a", "t", "e", " ">>
    /\ SubSeq(t, 13, Len(t)) = d
C6_Title ==
    /\ \A i \in 1..Len(entries) :
          IsTitleOf(entries[i].title, option_of(entries[i].options))
    /\ \A d \in Range(OPTION_TYPES) \cup InputValues : IsTitleOf(TitleOf(d), d)
    /\ \A d1, d2 \in Range(OPTION_TYPES) \cup InputValues :
          (TitleOf(d1) = TitleOf(d2)) <=> (d1 = d2)
C6_Witness ==
    /\ Len(entries) = 2
    /\ entries[1].title # entries[2].title

\* C7: the event messages of a command are, in order, one per call of
\* async_preview_updated; the k-th carries one item per key among the first k
\* calls, in the order the keys first reported, each item the key's latest
\* state and attributes; the number of items never decreases; an event
\* carries the id of a command whose preview was started.
EventsOf(id) == SelectSeq(sent, LAMBDA m : IsEvent(m, id))
KeysIn(log) == {log[i].key : i \in 1..Len(log)}
FirstIndex(log, k) == CHOOSE i \in 1..Len(log) :
    log[i].key = k /\ \A j \in 1..(i - 1) : log[j].key # k
LastIndex(log, k) == CHOOSE i \in 1..Len(log) :
    log[i].key = k /\ \A j \in (i + 1)..Len(log) : log[j].key # k
Rank(log, k) ==
    Cardinality({k2 \in KeysIn(log) : FirstIndex(log, k2) <= FirstIndex(log, k)})
ItemsMatch(items, log) ==
    /\ Len(items) = Cardinality(KeysIn(log))
    /\ \A k \in KeysIn(log) :
          items[Rank(log, k)] =
              [attributes |-> log[LastIndex(log, k)].attributes,
               state |-> log[LastIndex(log, k)].state]
C7_EventsFollowReports ==
    /\ \A id \in CmdIds :
          LET ev == EventsOf(id) IN
          /\ Len(ev) = Len(reported[id])
          /\ \A k \in 1..Len(ev) :
                ItemsMatch(ev[k].event.items, SubSeq(reported[id], 1, k))
          /\ \A k \in 1..(Len(ev) - 1) :
                Len(ev[k].event.items) <= Len(ev[k + 1].event.items)
    /\ \A k \in 1..Len(sent) :
          sent[k].type = "event"
              => sent[k].id \in CmdIds /\ handled[sent[k].id].status = "done"
C7_Witness ==
    \E id \in CmdIds :
        /\ Len(reported[id]) = Len(preview_entities[id]) + 2
        /\ Len(preview_states[id]) = 4
        /\ \E i \in 1..Len(preview_states[id]) :
              preview_states[id][i].value.state = 1

\* C8: a command with accepted user_input starts exactly one preview sensor,
\* of the option type selected under display_options.
C8_OneSensorOfSelectedOption ==
    \A id \in CmdIds :
        handled[id].status = "done"
            => preview_entities[id] = <<option_of(handled[id].validated)>>

\* C9: a command whose preview was started has exactly one result message,
\* and it comes before every event message of the command; a command whose
\* user_input the schema rejected has no result and no event message, and no
\* preview started or registered.
C9_ResultBeforeEvents ==
    \A id \in CmdIds :
        /\ handled[id].status = "done"
              => /\ Cardinality({k \in 1..Len(sent) : IsResult(sent[k], id)}) = 1
                 /\ \A k, e \in 1..Len(sent) :
                       IsResult(sent[k], id) /\ IsEvent(sent[e], id) => k < e
        /\ (handled[id].status = "raised" /\ handled[id].raised = "Invalid")
              => /\ \A k \in 1..Len(sent) :
                       ~IsResult(sent[k], id) /\ ~IsEvent(sent[k], id)
                 /\ preview_entities[id] = <<>>
                 /\ subscriptions[id] = <<>>
                 /\ cancelled[id] = <<>>
                 /\ reported[id] = <<>>
                 /\ conn_subscriptions[id] = 0
C9_Witness ==
    \E id \in CmdIds :
        /\ handled[id].status = "done"
        /\ handled[id].sync # NoSync
        /\ Len(EventsOf(id)) > Len(preview_entities[id])

\* C10: once the preview is started the subscription table maps the command
\* id to its unsubscribe callback and the list holds the cancel function of
\* every started sensor; after the callback has run, once or more often, the
\* list is empty and every cancel function has been called exactly once.
Calls(log, k) == Cardinality({i \in 1..Len(log) : log[i] = k})
C10_UnsubscribeOnce ==
    \A id \in CmdIds :
        handled[id].status = "done"
            => /\ conn_subscriptions[id] = id
               /\ preview_entities[id] # <<>>
               /\ unsub_calls[id] = 0
                     => /\ Len(subscriptions[id]) = Len(preview_entities[id])
                        /\ Range(subscriptions[id]) = Range(preview_entities[id])
                        /\ cancelled[id] = <<>>
               /\ unsub_calls[id] >= 1
                     => /\ subscriptions[id] = <<>>
                        /\ \A k \in Range(preview_entities[id]) :
                              Calls(cancelled[id], k) = 1
                        /\ Range(cancelled[id]) = Range(preview_entities[id])
C10_Witness ==
    \E id \in CmdIds :
        /\ handled[id].status = "done"
        /\ unsub_calls[id] = 2
        /\ Len(cancelled[id]) = 4
====
